---- MODULE Spec2Model ----
(***************************************************************************)
(* GestorTurnos of TurnosPeluqueria.py: the in-memory manager of clients   *)
(* (clientes) and appointments (turnos) and its two persistence files,     *)
(* the row export (CSV) and the structured snapshot (JSON).                *)
(*                                                                         *)
(* Strings that the code trims are sequences of one-character strings, so  *)
(* that str.strip() is computed.  A Python dict is an ordered dict: a      *)
(* sequence of entries [key, val] with distinct keys, in insertion order.  *)
(***************************************************************************)
EXTENDS Integers, Sequences, FiniteSets, TLC

\* Number of appointment ids uuid4 hands out in a run.
MaxTurnos == 2
\* Number of calls made on the manager in a run.
MaxSteps == 4
\* Number of writes to disk that fail in a run.
MaxFailures == 1

VARIABLES
    csv_path,   \* self.csv_path: where dump_to_csv writes the row export
    clientes,   \* self.clientes: ordered dict dni -> Cliente
    turnos,     \* self.turnos:   ordered dict id  -> Turno
    dictFile,   \* content of the file at self.dict_path (DICT_FILE)
    files,      \* content of every row-export file, by path
    nextId,     \* the next id uuid.uuid4() returns (ids are never reused)
    last,       \* the last call: its name, arguments, outcome and result
    steps,      \* number of calls made so far
    failures    \* number of writes that have failed so far

vars == <<csv_path, clientes, turnos, dictFile, files, nextId, last, steps, failures>>

--------------------------------------------------------------------------
\* Module constants of the program.

CSV_FILE == "turnos.csv"
DICT_FILE == "turnos_db.json"

\* A second row-export path, the target of exportar_csv_personalizado.
OtherCsv == "copia_turnos.csv"
CsvPaths == {CSV_FILE, OtherCsv}

\* A file is [st, content]: st is "none" (no such file), "truncated" (open(.., "w")
\* emptied it and the write then failed) or "written" (content is what was dumped).
NoCsv == [st |-> "none", content |-> <<>>]
TruncatedCsv == [st |-> "truncated", content |-> <<>>]
EmptySnapshot == [clientes |-> <<>>, turnos |-> <<>>]
NoDict == [st |-> "none", content |-> EmptySnapshot]
TruncatedDict == [st |-> "truncated", content |-> EmptySnapshot]

\* Python's None, for an argument that is a timestamp or a status (a string of
\* the model) and for one that is a trimmed text (a sequence of characters).
None == "None"
NoneS == <<"None">>
\* bool(x) of an optional str argument: None and "" are false.
Truthy(x) == x # None /\ x # ""
TruthyS(x) == x # NoneS /\ x # <<>>

\* What strptime gives for a text it rejects (it raises ValueError).
DatetimeError == [ok |-> FALSE, day |-> 0, min |-> 0]
DateError == [ok |-> FALSE, day |-> 0]

--------------------------------------------------------------------------
\* str.strip()

IsSpace(c) == c \in {" ", "\t", "\n", "\r"}

RECURSIVE LStrip(_)
LStrip(s) == IF s = <<>> THEN s
             ELSE IF IsSpace(Head(s)) THEN LStrip(Tail(s)) ELSE s

RECURSIVE RStrip(_)
RStrip(s) == IF s = <<>> THEN s
             ELSE IF IsSpace(s[Len(s)]) THEN RStrip(SubSeq(s, 1, Len(s) - 1)) ELSE s

\* A trim that forgets the right end.
StripLeftOnly(s) == LStrip(s)

Strip(s) == RStrip(LStrip(s))

--------------------------------------------------------------------------
\* datetime.strptime / strftime on the timestamps the model draws.  A parsed
\* datetime is [day, min]: the day's ordinal and the minute of the day.

\* datetime.strptime(s, DATETIME_FORMAT): "%Y-%m-%d %H:%M" accepts fields
\* without their leading zeros and rejects anything else.
StrptimeDatetime(s) ==
    CASE s = "2024-03-01 10:00" -> [ok |-> TRUE, day |-> 1, min |-> 600]
      [] s = "2024-3-1 10:00"   -> [ok |-> TRUE, day |-> 1, min |-> 600]
      [] s = "2024-03-01 09:30" -> [ok |-> TRUE, day |-> 1, min |-> 570]
      [] s = "2024-03-02 09:00" -> [ok |-> TRUE, day |-> 2, min |-> 540]
      [] OTHER                  -> DatetimeError

\* dt.strftime(DATETIME_FORMAT): the zero-padded text of a datetime.
Strftime(dt) ==
    CASE dt.day = 1 /\ dt.min = 600 -> "2024-03-01 10:00"
      [] dt.day = 1 /\ dt.min = 570 -> "2024-03-01 09:30"
      [] dt.day = 2 /\ dt.min = 540 -> "2024-03-02 09:00"

\* datetime.strptime(s, DATE_FORMAT).date(): the day's ordinal.
StrptimeDate(s) ==
    CASE s = "2024-03-01" -> [ok |-> TRUE, day |-> 1]
      [] s = "2024-3-1"   -> [ok |-> TRUE, day |-> 1]
      [] s = "2024-03-02" -> [ok |-> TRUE, day |-> 2]
      [] OTHER            -> DateError

\* Turno.datetime_obj()
DatetimeObj(t) == StrptimeDatetime(t.datetime_str)

\* datetime.__lt__
DtLess(a, b) == a.day < b.day \/ (a.day = b.day /\ a.min < b.min)

--------------------------------------------------------------------------
\* Ordered dicts.

Keys(od) == {od[i].key : i \in 1..Len(od)}
Has(od, k) == k \in Keys(od)
IndexOf(od, k) == CHOOSE i \in 1..Len(od) : od[i].key = k
Get(od, k) == od[IndexOf(od, k)].val
\* d[k] = v: in place when k is a key, appended otherwise.
Put(od, k, v) ==
    IF Has(od, k) THEN [od EXCEPT ![IndexOf(od, k)].val = v]
    ELSE Append(od, [key |-> k, val |-> v])
\* d.values(), in insertion order.
Values(od) == [i \in 1..Len(od) |-> od[i].val]

--------------------------------------------------------------------------
\* The dataclasses.

Cliente(dni, nombre, telefono) ==
    [dni |-> dni, nombre |-> nombre, telefono |-> telefono]

Turno(id, cliente_dni, datetime_str, servicio, estado, notas) ==
    [id |-> id, cliente_dni |-> cliente_dni, datetime_str |-> datetime_str,
     servicio |-> servicio, estado |-> estado, notas |-> notas]

--------------------------------------------------------------------------
\* Persistence.  A handler's writes are numbered in the order it makes them;
\* io = [at, trunc] says which write fails (0: none) and whether the failing
\* open(.., "w") had already emptied the file.  w = [dict, files, raised] is the
\* two kinds of file and whether an exception is propagating.

NoFault == [at |-> 0, trunc |-> FALSE]
IOs(n) == {NoFault}
          \cup IF failures < MaxFailures
               THEN {[at |-> k, trunc |-> b] : k \in 1..n, b \in BOOLEAN}
               ELSE {}

World == [dict |-> dictFile, files |-> files, raised |-> FALSE]

\* Cliente.to_dict / Turno.to_dict: asdict, every field under its name.
ClienteToDict(c) == [dni |-> c.dni, nombre |-> c.nombre, telefono |-> c.telefono]
TurnoToDict(t) ==
    [id |-> t.id, cliente_dni |-> t.cliente_dni, datetime_str |-> t.datetime_str,
     servicio |-> t.servicio, estado |-> t.estado, notas |-> t.notas]

\* The data dump_to_dict serialises.
Snapshot(cl, tu) ==
    [clientes |-> [i \in 1..Len(cl) |-> [key |-> cl[i].key, val |-> ClienteToDict(cl[i].val)]],
     turnos   |-> [i \in 1..Len(tu) |-> [key |-> tu[i].key, val |-> TurnoToDict(tu[i].val)]]]

\* One row of the row export: the appointment joined with its client's name
\* and phone, empty when the client is missing.
CsvRow(t, cl) ==
    [turno_id         |-> t.id,
     cliente_dni      |-> t.cliente_dni,
     cliente_nombre   |-> IF Has(cl, t.cliente_dni) THEN Get(cl, t.cliente_dni).nombre ELSE <<>>,
     cliente_telefono |-> IF Has(cl, t.cliente_dni) THEN Get(cl, t.cliente_dni).telefono ELSE <<>>,
     datetime_str     |-> t.datetime_str,
     servicio         |-> t.servicio,
     estado           |-> t.estado,
     notas            |-> t.notas]

CsvRows(cl, tu) == [i \in 1..Len(tu) |-> CsvRow(tu[i].val, cl)]

\* The outcome of a flush.
Flushed(w) == IF w.raised THEN "IOError" ELSE "ok"

\* dump_to_dict as the n-th write of a handler.
DumpToDict(w, cl, tu, n, io) ==
    IF w.raised THEN w
    ELSE IF io.at = n
         THEN [w EXCEPT !.raised = TRUE,
                        !.dict = IF io.trunc THEN TruncatedDict ELSE @]
         ELSE [w EXCEPT !.dict = [st |-> "written", content |-> Snapshot(cl, tu)]]

\* dump_to_csv to `path` as the n-th write of a handler: the rows, then
\* dump_to_dict as write n + 1.  A failure of the CSV write is re-raised.
DumpToCsv(w, path, cl, tu, n, io) ==
    IF w.raised THEN w
    ELSE IF io.at = n
         THEN [w EXCEPT !.raised = TRUE,
                        !.files[path] = IF io.trunc THEN TruncatedCsv ELSE @]
         ELSE DumpToDict([w EXCEPT !.files[path] =
                              [st |-> "written", content |-> CsvRows(cl, tu)]],
                         cl, tu, n + 1, io)

\* open(csv_path, mode="r") reads in text mode with universal newlines: what
\* the csv reader is given has "\n" for every "\r\n" and every "\r" of the
\* file, inside a quoted field as everywhere else.  (dump_to_csv opens with
\* newline="" and writes the fields as they are.)
RECURSIVE UniversalNewlines(_)
UniversalNewlines(s) ==
    IF s = <<>> THEN s
    ELSE IF Head(s) = "\r"
         THEN IF Len(s) >= 2 /\ s[2] = "\n"
              THEN <<"\n">> \o UniversalNewlines(Tail(Tail(s)))
              ELSE <<"\n">> \o UniversalNewlines(Tail(s))
         ELSE <<Head(s)>> \o UniversalNewlines(Tail(s))

\* The dict csv.DictReader gives for a line of the file.  A column the line
\* does not have is None (NoneS for a text, None for a timestamp or a status).
DictReaderRow(row) ==
    [row EXCEPT !.cliente_dni      = UniversalNewlines(@),
                !.cliente_nombre   = UniversalNewlines(@),
                !.cliente_telefono = UniversalNewlines(@),
                !.servicio         = UniversalNewlines(@),
                !.notas            = UniversalNewlines(@)]

\* load_from_csv's loop over the rows: the client of a row is created from the
\* first row that names it (a row with an empty dni names none), and the
\* appointment is stored under its id.  None has no strip(): a row without
\* its cliente_dni column, or without the name or phone of the client it
\* creates, raises AttributeError out of the loop, and the two dicts stay as
\* the rows before it left them.
RECURSIVE LoadRows(_, _, _)
LoadRows(rows, cl, tu) ==
    IF rows = <<>> THEN [out |-> "ok", clientes |-> cl, turnos |-> tu]
    ELSE LET row == DictReaderRow(Head(rows))
             dni == Strip(row.cliente_dni)
             creates == dni # <<>> /\ ~Has(cl, dni)
             cl2 == IF creates
                    THEN Put(cl, dni, Cliente(dni, Strip(row.cliente_nombre),
                                              Strip(row.cliente_telefono)))
                    ELSE cl
             t == Turno(row.turno_id, dni, row.datetime_str, row.servicio,
                        row.estado, row.notas)
         IN IF row.cliente_dni = NoneS
            THEN [out |-> "AttributeError", clientes |-> cl, turnos |-> tu]
            ELSE IF creates /\ (row.cliente_nombre = NoneS \/ row.cliente_telefono = NoneS)
            THEN [out |-> "AttributeError", clientes |-> cl, turnos |-> tu]
            ELSE LoadRows(Tail(rows), cl2, Put(tu, t.id, t))

\* load_from_csv: nothing when the file does not exist; otherwise both dicts
\* are cleared and rebuilt from the rows (a truncated file has none).
LoadFromCsvResult(file, cl, tu) ==
    IF file.st = "none" THEN [out |-> "ok", clientes |-> cl, turnos |-> tu]
    ELSE LoadRows(file.content, <<>>, <<>>)

\* A from_dict that forgets the status it is given.
TurnoFromDictAlwaysActive(d) ==
    Turno(d.id, d.cliente_dni, d.datetime_str, d.servicio, "activo",
          IF "notas" \in DOMAIN d THEN d.notas ELSE <<>>)

\* Cliente.from_dict / Turno.from_dict: d[..] for the required keys, d.get with
\* a default for telefono, estado and notas.
ClienteFromDict(d) ==
    Cliente(d.dni, d.nombre, IF "telefono" \in DOMAIN d THEN d.telefono ELSE <<>>)

TurnoFromDict(d) ==
    Turno(d.id, d.cliente_dni, d.datetime_str, d.servicio,
          IF "estado" \in DOMAIN d THEN d.estado ELSE "activo",
          IF "notas" \in DOMAIN d THEN d.notas ELSE <<>>)

\* load_from_dict: open raises when there is no file and json.load raises on a
\* file that was emptied or cut short; the two dicts are assigned after
\* json.load, so a failure leaves them as they were.
LoadFromDictResult(file, cl, tu) ==
    CASE file.st = "none" -> [out |-> "FileNotFoundError", clientes |-> cl, turnos |-> tu]
      [] file.st = "truncated" -> [out |-> "JSONDecodeError", clientes |-> cl, turnos |-> tu]
      [] OTHER ->
           [out |-> "ok",
            clientes |-> [i \in 1..Len(file.content.clientes) |->
                            [key |-> file.content.clientes[i].key,
                             val |-> ClienteFromDict(file.content.clientes[i].val)]],
            turnos |-> [i \in 1..Len(file.content.turnos) |->
                            [key |-> file.content.turnos[i].key,
                             val |-> TurnoFromDict(file.content.turnos[i].val)]]]

\* A constructor that looks for the row export first and for the snapshot
\* only when there is none.
ConstructRowExportFirst(w, io) ==
    IF w.files[CSV_FILE].st # "none"
    THEN LET l == LoadFromCsvResult(w.files[CSV_FILE], <<>>, <<>>)
             w2 == DumpToDict(w, l.clientes, l.turnos, 1, io)
         IN IF l.out # "ok"
            THEN [out |-> l.out, clientes |-> l.clientes, turnos |-> l.turnos, w |-> w]
            ELSE [out |-> Flushed(w2), clientes |-> l.clientes, turnos |-> l.turnos, w |-> w2]
    ELSE IF w.dict.st # "none"
    THEN LET l == LoadFromDictResult(w.dict, <<>>, <<>>)
             w2 == DumpToCsv(w, CSV_FILE, l.clientes, l.turnos, 1, io)
         IN IF l.out # "ok"
            THEN [out |-> l.out, clientes |-> l.clientes, turnos |-> l.turnos, w |-> w]
            ELSE [out |-> Flushed(w2), clientes |-> l.clientes, turnos |-> l.turnos, w |-> w2]
    ELSE [out |-> "ok", clientes |-> <<>>, turnos |-> <<>>, w |-> w]

\* GestorTurnos(): the two dicts start empty; when the snapshot exists it is
\* loaded and the row export at CSV_FILE is written from it (writes 1 and 2);
\* otherwise, when the row export exists, it is loaded and the snapshot is
\* written (write 1).  Whatever either branch raises is caught and printed as
\* a warning (out), and the two dicts stay as the branch left them.
Construct(w, io) ==
    IF w.dict.st # "none"
    THEN LET l == LoadFromDictResult(w.dict, <<>>, <<>>)
             w2 == DumpToCsv(w, CSV_FILE, l.clientes, l.turnos, 1, io)
         IN IF l.out # "ok"
            THEN [out |-> l.out, clientes |-> l.clientes, turnos |-> l.turnos, w |-> w]
            ELSE [out |-> Flushed(w2), clientes |-> l.clientes, turnos |-> l.turnos, w |-> w2]
    ELSE IF w.files[CSV_FILE].st # "none"
    THEN LET l == LoadFromCsvResult(w.files[CSV_FILE], <<>>, <<>>)
             w2 == DumpToDict(w, l.clientes, l.turnos, 1, io)
         IN IF l.out # "ok"
            THEN [out |-> l.out, clientes |-> l.clientes, turnos |-> l.turnos, w |-> w]
            ELSE [out |-> Flushed(w2), clientes |-> l.clientes, turnos |-> l.turnos, w |-> w2]
    ELSE [out |-> "ok", clientes |-> <<>>, turnos |-> <<>>, w |-> w]

--------------------------------------------------------------------------
\* The operations' effect on the two dicts, before anything is flushed.
\* Each gives [out, ...]: out is "ok" or the failure the code raises.

\* A registration that overwrites the client it finds instead of refusing.
RegistrarOverwrite(cl, dni0, nombre, telefono) ==
    LET dni == Strip(dni0) IN
    [out |-> IF Has(cl, dni) THEN "DuplicateClient" ELSE "ok",
     clientes |-> Put(cl, dni, Cliente(dni, Strip(nombre), Strip(telefono)))]

\* registrar_cliente
Registrar(cl, dni0, nombre, telefono) ==
    LET dni == Strip(dni0) IN
    IF Has(cl, dni) THEN [out |-> "DuplicateClient", clientes |-> cl]
    ELSE [out |-> "ok",
          clientes |-> Put(cl, dni, Cliente(dni, Strip(nombre), Strip(telefono)))]

\* A loop that forgets the status: any appointment at that timestamp blocks.
SlotTakenAnyStatus(tu, ds) ==
    \E i \in 1..Len(tu) : tu[i].val.datetime_str = ds

\* solicitar_turno's loop: an active appointment has that timestamp.
SlotTaken(tu, ds) ==
    \E i \in 1..Len(tu) :
        tu[i].val.estado = "activo" /\ tu[i].val.datetime_str = ds

\* A booking that compares the text it was given, not the formatted timestamp.
SolicitarRawCompare(cl, tu, id, cliente_dni, datetime_str, servicio, notas) ==
    LET dt == StrptimeDatetime(datetime_str) IN
    IF ~Has(cl, cliente_dni) THEN [out |-> "UnknownClient", turnos |-> tu]
    ELSE IF ~dt.ok THEN [out |-> "InvalidTimestamp", turnos |-> tu]
    ELSE IF \E i \in 1..Len(tu) : /\ tu[i].val.estado = "activo"
                                   /\ tu[i].val.datetime_str = datetime_str
         THEN [out |-> "SlotConflict", turnos |-> tu]
    ELSE [out |-> "ok",
          turnos |-> Put(tu, id, Turno(id, cliente_dni, Strftime(dt), Strip(servicio),
                                       "activo", Strip(notas)))]

\* solicitar_turno; id is the uuid4 it draws.
Solicitar(cl, tu, id, cliente_dni, datetime_str, servicio, notas) ==
    LET dt == StrptimeDatetime(datetime_str) IN
    IF ~Has(cl, cliente_dni) THEN [out |-> "UnknownClient", turnos |-> tu]
    ELSE IF ~dt.ok THEN [out |-> "InvalidTimestamp", turnos |-> tu]
    ELSE IF SlotTaken(tu, Strftime(dt)) THEN [out |-> "SlotConflict", turnos |-> tu]
    ELSE [out |-> "ok",
          turnos |-> Put(tu, id, Turno(id, cliente_dni, Strftime(dt), Strip(servicio),
                                       "activo", Strip(notas)))]

\* A loop that does not leave out the appointment that is being changed.
OtherSlotTakenOwnIncluded(tu, id, ds) ==
    \E i \in 1..Len(tu) :
        /\ tu[i].val.estado = "activo"
        /\ tu[i].val.datetime_str = ds

\* modificar_turno's loop: another active appointment has that timestamp.
OtherSlotTaken(tu, id, ds) ==
    \E i \in 1..Len(tu) :
        /\ tu[i].val.id # id
        /\ tu[i].val.estado = "activo"
        /\ tu[i].val.datetime_str = ds

\* A change that stores the service and the notes before it looks at the timestamp.
ModificarEagerFields(tu, turno_id, nuevo_datetime_str, nuevo_servicio, nuevas_notas) ==
    IF ~Has(tu, turno_id) THEN [out |-> "NotFound", turnos |-> tu]
    ELSE
    LET t  == Get(tu, turno_id)
        dt == StrptimeDatetime(nuevo_datetime_str)
        t1 == IF nuevo_servicio # NoneS
              THEN [t EXCEPT !.servicio = Strip(nuevo_servicio)] ELSE t
        t2 == IF nuevas_notas # NoneS
              THEN [t1 EXCEPT !.notas = Strip(nuevas_notas)] ELSE t1
        tu2 == Put(tu, turno_id, t2)
    IN
    IF Truthy(nuevo_datetime_str) /\ ~dt.ok
    THEN [out |-> "InvalidTimestamp", turnos |-> tu2]
    ELSE IF Truthy(nuevo_datetime_str) /\ OtherSlotTaken(tu, t.id, Strftime(dt))
    THEN [out |-> "SlotConflict", turnos |-> tu2]
    ELSE [out |-> "ok",
          turnos |-> IF Truthy(nuevo_datetime_str)
                     THEN Put(tu, turno_id, [t2 EXCEPT !.datetime_str = Strftime(dt)])
                     ELSE tu2]

\* modificar_turno
Modificar(tu, turno_id, nuevo_datetime_str, nuevo_servicio, nuevas_notas) ==
    IF ~Has(tu, turno_id) THEN [out |-> "NotFound", turnos |-> tu]
    ELSE
    LET t  == Get(tu, turno_id)
        dt == StrptimeDatetime(nuevo_datetime_str)
    IN
    IF Truthy(nuevo_datetime_str) /\ ~dt.ok
    THEN [out |-> "InvalidTimestamp", turnos |-> tu]
    ELSE IF Truthy(nuevo_datetime_str) /\ OtherSlotTaken(tu, t.id, Strftime(dt))
    THEN [out |-> "SlotConflict", turnos |-> tu]
    ELSE
    LET t1 == IF Truthy(nuevo_datetime_str)
              THEN [t EXCEPT !.datetime_str = Strftime(dt)] ELSE t
        t2 == IF nuevo_servicio # NoneS
              THEN [t1 EXCEPT !.servicio = Strip(nuevo_servicio)] ELSE t1
        t3 == IF nuevas_notas # NoneS
              THEN [t2 EXCEPT !.notas = Strip(nuevas_notas)] ELSE t2
    IN [out |-> "ok", turnos |-> Put(tu, turno_id, t3)]

\* A cancellation that refuses an appointment that is cancelled already.
CancelarOnlyOnce(tu, turno_id) ==
    IF ~Has(tu, turno_id) THEN [out |-> "NotFound", turnos |-> tu]
    ELSE IF Get(tu, turno_id).estado = "cancelado"
    THEN [out |-> "AlreadyCancelled", turnos |-> tu]
    ELSE [out |-> "ok",
          turnos |-> Put(tu, turno_id, [Get(tu, turno_id) EXCEPT !.estado = "cancelado"])]

\* cancelar_turno
Cancelar(tu, turno_id) ==
    IF ~Has(tu, turno_id) THEN [out |-> "NotFound", turnos |-> tu]
    ELSE [out |-> "ok",
          turnos |-> Put(tu, turno_id, [Get(tu, turno_id) EXCEPT !.estado = "cancelado"])]

\* A completion that takes an unknown id for done.
MarcarRealizadoUnchecked(tu, turno_id) ==
    IF ~Has(tu, turno_id) THEN [out |-> "ok", turnos |-> tu]
    ELSE [out |-> "ok",
          turnos |-> Put(tu, turno_id, [Get(tu, turno_id) EXCEPT !.estado = "realizado"])]

\* marcar_realizado
MarcarRealizado(tu, turno_id) ==
    IF ~Has(tu, turno_id) THEN [out |-> "NotFound", turnos |-> tu]
    ELSE [out |-> "ok",
          turnos |-> Put(tu, turno_id, [Get(tu, turno_id) EXCEPT !.estado = "realizado"])]

\* list.sort(key=datetime_obj): a stable sort, ascending.
RECURSIVE InsertByDatetime(_, _)
InsertByDatetime(sorted, t) ==
    IF sorted = <<>> THEN <<t>>
    ELSE IF DtLess(DatetimeObj(t), DatetimeObj(Head(sorted)))
         THEN <<t>> \o sorted
         ELSE <<Head(sorted)>> \o InsertByDatetime(Tail(sorted), t)

RECURSIVE SortFrom(_, _)
SortFrom(sorted, rest) ==
    IF rest = <<>> THEN sorted
    ELSE SortFrom(InsertByDatetime(sorted, Head(rest)), Tail(rest))

\* A listing that forgets to sort.
SortForgotten(results) == results

SortByDatetime(results) == SortFrom(<<>>, results)

\* listar_turnos's loop over turnos.values(): the date filter is parsed inside
\* the loop, for an appointment that passed the status and client filters.
RECURSIVE ListarLoop(_, _, _, _, _)
ListarLoop(vals, filtro_cliente_dni, filtro_fecha, estado, results) ==
    IF vals = <<>> THEN [out |-> "ok", ret |-> results]
    ELSE
    LET t    == Head(vals)
        skip == ListarLoop(Tail(vals), filtro_cliente_dni, filtro_fecha, estado, results)
        keep == ListarLoop(Tail(vals), filtro_cliente_dni, filtro_fecha, estado,
                           Append(results, t))
    IN
    IF Truthy(estado) /\ t.estado # estado THEN skip
    ELSE IF TruthyS(filtro_cliente_dni) /\ t.cliente_dni # filtro_cliente_dni THEN skip
    ELSE IF Truthy(filtro_fecha)
         THEN IF ~StrptimeDate(filtro_fecha).ok THEN [out |-> "InvalidDate", ret |-> <<>>]
              ELSE IF DatetimeObj(t).day # StrptimeDate(filtro_fecha).day THEN skip
              ELSE keep
         ELSE keep

\* listar_turnos
ListarTurnos(tu, filtro_cliente_dni, filtro_fecha, estado) ==
    LET r == ListarLoop(Values(tu), filtro_cliente_dni, filtro_fecha, estado, <<>>) IN
    IF r.out = "ok" THEN [out |-> "ok", ret |-> SortByDatetime(r.ret)] ELSE r

\* The exception type the code raises for a failure.
ExcType(out) ==
    CASE out \in {"DuplicateClient", "UnknownClient", "InvalidTimestamp",
                  "SlotConflict", "InvalidDate"} -> "ValueError"
      [] out = "NotFound" -> "KeyError"
      [] out = "IOError" -> "OSError"
      [] out = "AttributeError" -> "AttributeError"
      [] OTHER -> "none"

--------------------------------------------------------------------------
\* The arguments the calls are made with.

\* (dni, nombre, telefono) of a registration: two of them name the same client
RegistroArgs == {[dni |-> <<"1">>, nombre |-> <<"A">>, telefono |-> <<>>],
                 [dni |-> <<"1", " ">>, nombre |-> <<" ", "B">>, telefono |-> <<"5", " ">>],
                 [dni |-> <<" ">>, nombre |-> <<"A">>, telefono |-> <<>>]}
\* cliente_dni of a booking: the registered ones and an unknown one
ClienteDniArgs == {<<"1">>, <<>>, <<"2">>}
\* (datetime_str, servicio, notas) of a booking: two texts of one timestamp,
\* another timestamp with a service text that has a carriage return in it, and
\* a text that is no timestamp
BookingArgs == {[datetime_str |-> "2024-03-01 10:00", servicio |-> <<"C">>, notas |-> <<>>],
                [datetime_str |-> "2024-3-1 10:00", servicio |-> <<" ", "T">>, notas |-> <<"n", " ">>],
                [datetime_str |-> "2024-03-02 09:00", servicio |-> <<"a", "\r", "b">>, notas |-> <<>>],
                [datetime_str |-> "1/3/2024 10hs", servicio |-> <<"C">>, notas |-> <<>>]}
TurnoIdArgs == 1..MaxTurnos
\* (nuevo_datetime_str, nuevo_servicio, nuevas_notas) of a change
ChangeArgs == {[datetime_str |-> None, servicio |-> <<" ", "T">>, notas |-> NoneS],
               [datetime_str |-> "", servicio |-> NoneS, notas |-> <<"n", " ">>],
               [datetime_str |-> "2024-3-1 10:00", servicio |-> NoneS, notas |-> NoneS],
               [datetime_str |-> "2024-03-02 09:00", servicio |-> <<" ", "T">>, notas |-> <<"n", " ">>],
               [datetime_str |-> "1/3/2024 10hs", servicio |-> <<" ", "T">>, notas |-> NoneS]}
\* (filtro_cliente_dni, filtro_fecha, estado) of a listing
FilterArgs == {[cliente |-> NoneS, fecha |-> None, estado |-> None],
               [cliente |-> NoneS, fecha |-> "2024-03-01", estado |-> None],
               [cliente |-> NoneS, fecha |-> "1/3/2024", estado |-> None],
               [cliente |-> <<"1">>, fecha |-> "1/3/2024", estado |-> "cancelado"],
               [cliente |-> <<>>, fecha |-> "", estado |-> "activo"]}

Call(op, out, args, ret) == [op |-> op, out |-> out, args |-> args, ret |-> ret]
\* Between two calls: the console is back at its menu.
Idle == Call("menu", "ok", <<>>, <<>>)

\* A call is made from the menu, MaxSteps times at most.
Ready == last.op = "menu" /\ steps < MaxSteps

\* A flush that forgets the row export.
FlushDictOnly(cl, tu, io) == DumpToDict(World, cl, tu, 1, io)

\* dump_to_dict() followed by dump_to_csv(): the flush of the handlers that
\* change appointments (writes 1, 2 and 3).
FlushBoth(cl, tu, io) ==
    DumpToCsv(DumpToDict(World, cl, tu, 1, io), csv_path, cl, tu, 2, io)

\* The effect of a flush on the files and the count of failures.
Written(w) ==
    /\ dictFile' = w.dict
    /\ files' = w.files
    /\ failures' = IF w.raised THEN failures + 1 ELSE failures

--------------------------------------------------------------------------
\* The manager, constructed with neither file on disk.

Init ==
    /\ csv_path = CSV_FILE
    /\ clientes = <<>>
    /\ turnos = <<>>
    /\ dictFile = NoDict
    /\ files = [p \in CsvPaths |-> NoCsv]
    /\ nextId = 1
    /\ last = Idle
    /\ steps = 0
    /\ failures = 0

RegistrarCliente ==
    \E args \in RegistroArgs :
        LET r == Registrar(clientes, args.dni, args.nombre, args.telefono)
        IN /\ Ready
           /\ steps' = steps + 1
           /\ UNCHANGED <<csv_path, turnos, nextId>>
           /\ IF r.out # "ok"
              THEN /\ last' = Call("registrar_cliente", r.out, args, <<>>)
                   /\ clientes' = r.clientes
                   /\ UNCHANGED <<dictFile, files, failures>>
              ELSE \E io \in IOs(1) :
                     LET w == DumpToDict(World, r.clientes, turnos, 1, io)
                     IN /\ last' = Call("registrar_cliente", Flushed(w), args, <<>>)
                        /\ clientes' = r.clientes
                        /\ Written(w)

SolicitarTurno ==
    \E dni \in ClienteDniArgs, b \in BookingArgs :
        LET r == Solicitar(clientes, turnos, nextId, dni, b.datetime_str, b.servicio, b.notas)
            args == [cliente_dni |-> dni, datetime_str |-> b.datetime_str,
                     servicio |-> b.servicio, notas |-> b.notas]
        IN /\ Ready
           /\ steps' = steps + 1
           /\ UNCHANGED <<csv_path, clientes>>
           /\ IF r.out # "ok"
              THEN /\ last' = Call("solicitar_turno", r.out, args, <<>>)
                   /\ turnos' = r.turnos
                   /\ UNCHANGED <<nextId, dictFile, files, failures>>
              ELSE \E io \in IOs(3) :
                     LET w == FlushBoth(clientes, r.turnos, io)
                     IN /\ nextId <= MaxTurnos
                        /\ last' = Call("solicitar_turno", Flushed(w), args, <<>>)
                        /\ turnos' = r.turnos
                        /\ nextId' = nextId + 1
                        /\ Written(w)

ListarTurnosCall ==
    \E f \in FilterArgs :
        LET r == ListarTurnos(turnos, f.cliente, f.fecha, f.estado)
        IN /\ Ready
           /\ steps' = steps + 1
           /\ last' = Call("listar_turnos", r.out, f, r.ret)
           /\ UNCHANGED <<csv_path, clientes, turnos, dictFile, files, nextId, failures>>

ModificarTurno ==
    \E id \in TurnoIdArgs, c \in ChangeArgs :
        LET r == Modificar(turnos, id, c.datetime_str, c.servicio, c.notas)
            args == [turno_id |-> id, nuevo_datetime_str |-> c.datetime_str,
                     nuevo_servicio |-> c.servicio, nuevas_notas |-> c.notas]
        IN /\ Ready
           /\ steps' = steps + 1
           /\ UNCHANGED <<csv_path, clientes, nextId>>
           /\ IF r.out # "ok"
              THEN /\ last' = Call("modificar_turno", r.out, args, <<>>)
                   /\ turnos' = r.turnos
                   /\ UNCHANGED <<dictFile, files, failures>>
              ELSE \E io \in IOs(3) :
                     LET w == FlushBoth(clientes, r.turnos, io)
                     IN /\ last' = Call("modificar_turno", Flushed(w), args, <<>>)
                        /\ turnos' = r.turnos
                        /\ Written(w)

CancelarTurno ==
    \E id \in TurnoIdArgs :
        LET r == Cancelar(turnos, id)
            args == [turno_id |-> id]
        IN /\ Ready
           /\ steps' = steps + 1
           /\ UNCHANGED <<csv_path, clientes, nextId>>
           /\ IF r.out # "ok"
              THEN /\ last' = Call("cancelar_turno", r.out, args, <<>>)
                   /\ turnos' = r.turnos
                   /\ UNCHANGED <<dictFile, files, failures>>
              ELSE \E io \in IOs(3) :
                     LET w == FlushBoth(clientes, r.turnos, io)
                     IN /\ last' = Call("cancelar_turno", Flushed(w), args, <<>>)
                        /\ turnos' = r.turnos
                        /\ Written(w)

MarcarRealizadoCall ==
    \E id \in TurnoIdArgs :
        LET r == MarcarRealizado(turnos, id)
            args == [turno_id |-> id]
        IN /\ Ready
           /\ steps' = steps + 1
           /\ UNCHANGED <<csv_path, clientes, nextId>>
           /\ IF r.out # "ok"
              THEN /\ last' = Call("marcar_realizado", r.out, args, <<>>)
                   /\ turnos' = r.turnos
                   /\ UNCHANGED <<dictFile, files, failures>>
              ELSE \E io \in IOs(3) :
                     LET w == FlushBoth(clientes, r.turnos, io)
                     IN /\ last' = Call("marcar_realizado", Flushed(w), args, <<>>)
                        /\ turnos' = r.turnos
                        /\ Written(w)

\* exportar_csv_personalizado: csv_path is set to the target, dump_to_csv runs,
\* and csv_path is set back by the statement after it, which an exception skips.
ExportarCsvPersonalizado ==
    \E path \in CsvPaths, io \in IOs(2) :
        LET w == DumpToCsv(World, path, clientes, turnos, 1, io)
        IN /\ Ready
           /\ steps' = steps + 1
           /\ last' = Call("exportar_csv_personalizado", Flushed(w),
                           [path |-> path, old |-> csv_path], <<>>)
           /\ csv_path' = IF w.raised THEN path ELSE csv_path
           /\ Written(w)
           /\ UNCHANGED <<clientes, turnos, nextId>>

\* load_from_csv, called on the manager (the row export is reloaded).
LoadFromCsv ==
    LET r == LoadFromCsvResult(files[csv_path], clientes, turnos)
    IN /\ Ready
       /\ steps' = steps + 1
       /\ last' = Call("load_from_csv", r.out, [path |-> csv_path], <<>>)
       /\ clientes' = r.clientes
       /\ turnos' = r.turnos
       /\ UNCHANGED <<csv_path, dictFile, files, nextId, failures>>

\* The program is left and started again: main_menu() constructs a new
\* GestorTurnos on the default paths, with the files the last run left.  The
\* call records the two files the constructor found.
Restart ==
    \E io \in IOs(2) :
        LET r == Construct(World, io)
        IN /\ Ready
           /\ steps' = steps + 1
           /\ csv_path' = CSV_FILE
           /\ clientes' = r.clientes
           /\ turnos' = r.turnos
           /\ last' = Call("__init__", r.out,
                           [dict |-> dictFile, csv |-> files[CSV_FILE]], <<>>)
           /\ Written(r.w)
           /\ UNCHANGED nextId

\* The console shows the call's result and goes back to its menu.
Pausa ==
    /\ last.op # "menu"
    /\ steps < MaxSteps
    /\ last' = Idle
    /\ UNCHANGED <<csv_path, clientes, turnos, dictFile, files, nextId, steps, failures>>

Next ==
    \/ RegistrarCliente
    \/ SolicitarTurno
    \/ ListarTurnosCall
    \/ ModificarTurno
    \/ CancelarTurno
    \/ MarcarRealizadoCall
    \/ ExportarCsvPersonalizado
    \/ LoadFromCsv
    \/ Pausa

Spec == Init /\ [][Next]_vars

\* The runs of the program one after the other on the same two files.
NextRestart ==
    \/ Next
    \/ Restart

SpecRestart == Init /\ [][NextRestart]_vars

\* The runs in which nothing is called but the five operations that change
\* the clients or the appointments, run after run.
NextDurable ==
    \/ RegistrarCliente
    \/ SolicitarTurno
    \/ ModificarTurno
    \/ CancelarTurno
    \/ MarcarRealizadoCall
    \/ Restart
    \/ Pausa

SpecDurable == Init /\ [][NextDurable]_vars

--------------------------------------------------------------------------
\* The program started on files that were not left by a run of it: written by
\* an earlier version, copied from elsewhere or edited by hand.

\* A line of a row export with all its columns.
DiskRow(id, dni, nombre, datetime_str, servicio, estado) ==
    [turno_id |-> id, cliente_dni |-> dni, cliente_nombre |-> nombre,
     cliente_telefono |-> <<>>, datetime_str |-> datetime_str,
     servicio |-> servicio, estado |-> estado, notas |-> <<>>]
\* A line with nothing after its first column, and a line with nothing after
\* its timestamp: csv.DictReader gives None for the columns a line lacks.
DiskRowIdOnly(id) ==
    [turno_id |-> id, cliente_dni |-> NoneS, cliente_nombre |-> NoneS,
     cliente_telefono |-> NoneS, datetime_str |-> None,
     servicio |-> NoneS, estado |-> None, notas |-> NoneS]
DiskRowCutShort(id, dni, nombre, datetime_str) ==
    [turno_id |-> id, cliente_dni |-> dni, cliente_nombre |-> nombre,
     cliente_telefono |-> <<>>, datetime_str |-> datetime_str,
     servicio |-> NoneS, estado |-> None, notas |-> NoneS]

DiskCsv(rows) == [st |-> "written", content |-> rows]
\* The row exports found on disk: none, an empty one, one with two lines, and
\* the same with a third line between the two that lacks columns.
DiskCsvs ==
    LET first == DiskRow(1, <<"1">>, <<"A">>, "2024-03-01 10:00", <<"C">>, "activo")
        last2 == DiskRow(2, <<"2", " ">>, <<" ", "B">>, "2024-03-02 09:00", <<"T">>, "cancelado")
    IN {NoCsv, TruncatedCsv,
        DiskCsv(<<first, last2>>),
        DiskCsv(<<first, DiskRowIdOnly(3), last2>>),
        DiskCsv(<<first, DiskRowCutShort(3, <<"1">>, <<"A">>, "2024-03-02 09:00"), last2>>)}

\* The snapshots found on disk: none, one cut short, and one with a client
\* that has an appointment and a client that has none.
DiskDicts ==
    {NoDict, TruncatedDict,
     [st |-> "written",
      content |-> Snapshot(
          <<[key |-> <<"1">>, val |-> Cliente(<<"1">>, <<"A">>, <<"5">>)],
            [key |-> <<"9">>, val |-> Cliente(<<"9">>, <<"Z">>, <<>>)]>>,
          <<[key |-> 1, val |-> Turno(1, <<"1">>, "2024-03-01 09:30", <<"C">>,
                                      "realizado", <<"n">>)]>>)]}

\* The manager constructed on such files (no write fails while it is).
InitDisk ==
    \E d \in DiskDicts, c \in DiskCsvs :
        LET r == Construct([dict |-> d,
                            files |-> [p \in CsvPaths |-> IF p = CSV_FILE THEN c ELSE NoCsv],
                            raised |-> FALSE], NoFault)
        IN /\ csv_path = CSV_FILE
           /\ clientes = r.clientes
           /\ turnos = r.turnos
           /\ dictFile = r.w.dict
           /\ files = r.w.files
           /\ nextId = 1
           /\ last = Call("__init__", r.out, [dict |-> d, csv |-> c], <<>>)
           /\ steps = 0
           /\ failures = 0

\* It is then used to register, cancel and complete, reloaded and restarted.
NextDisk ==
    \/ RegistrarCliente
    \/ CancelarTurno
    \/ MarcarRealizadoCall
    \/ LoadFromCsv
    \/ Restart
    \/ Pausa

SpecDisk == InitDisk /\ [][NextDisk]_vars

--------------------------------------------------------------------------
\* Properties.

\* The appointments, in storage order.
Stored == Values(turnos)
IsActive(t) == t.estado = "activo"
\* The timestamp a text denotes, as the program writes it.
Stamp(text) == Strftime(StrptimeDatetime(text))
Parses(text) == StrptimeDatetime(text).ok

\* C1: no two distinct active appointments have the same datetime_str, after
\* any sequence of calls, successful or failing.
C1_OneActivePerSlot ==
    \A i, j \in 1..Len(turnos) :
        (i # j /\ IsActive(Stored[i]) /\ IsActive(Stored[j]))
            => Stored[i].datetime_str # Stored[j].datetime_str

\* Two active appointments are stored and a booking into the slot of one of
\* them, written without its leading zeros, has just been refused.
C1_Witness ==
    /\ last.op = "solicitar_turno"
    /\ last.out = "SlotConflict"
    /\ last.args.datetime_str = "2024-3-1 10:00"
    /\ \E i, j \in 1..Len(turnos) : i # j /\ IsActive(Stored[i]) /\ IsActive(Stored[j])

\* The call recorded in c asks for the slot of an active appointment other than
\* the one it reschedules (tu is the appointments before the call).
AsksTakenSlot(c, tu) ==
    \/ /\ c.op = "solicitar_turno"
       /\ Parses(c.args.datetime_str)
       /\ \E i \in 1..Len(tu) :
             IsActive(tu[i].val) /\ tu[i].val.datetime_str = Stamp(c.args.datetime_str)
    \/ /\ c.op = "modificar_turno"
       /\ Has(tu, c.args.turno_id)
       /\ c.args.nuevo_datetime_str \notin {None, ""}
       /\ Parses(c.args.nuevo_datetime_str)
       /\ \E i \in 1..Len(tu) :
             /\ tu[i].key # c.args.turno_id
             /\ IsActive(tu[i].val)
             /\ tu[i].val.datetime_str = Stamp(c.args.nuevo_datetime_str)

\* C2: a solicitar_turno or modificar_turno call into the slot of another active
\* appointment fails with a ValueError (the slot conflict, unless solicitar_turno
\* was given an unregistered client, which it reports first) and leaves every
\* appointment as it was: none is added, and the service and notes passed to
\* modificar_turno are not stored.
C2_SlotConflictChangesNothing ==
    [][ AsksTakenSlot(last', turnos) =>
            /\ ExcType(last'.out) = "ValueError"
            /\ last'.op = "modificar_turno" => last'.out = "SlotConflict"
            /\ (last'.op = "solicitar_turno" /\ Has(clientes, last'.args.cliente_dni))
                   => last'.out = "SlotConflict"
            /\ turnos' = turnos
            /\ clientes' = clientes ]_vars

\* A modificar_turno that carried a new service and new notes has just been
\* refused for its slot.
C2_Witness ==
    /\ last.op = "modificar_turno"
    /\ last.out = "SlotConflict"
    /\ last.args.nuevo_servicio # NoneS
    /\ last.args.nuevas_notas # NoneS

\* C3: a cancelled or completed appointment keeps its status through every
\* cancelar_turno, marcar_realizado, modificar_turno and solicitar_turno
\* (stated of the runs in which no write to disk has failed).
C3_TerminalStatusKept ==
    [][ ( /\ failures' = 0
          /\ last'.op \in {"cancelar_turno", "marcar_realizado",
                            "modificar_turno", "solicitar_turno"} ) =>
            \A i \in 1..Len(turnos) :
                (turnos[i].val.estado \in {"cancelado", "realizado"}
                 /\ Has(turnos', turnos[i].key))
                    => Get(turnos', turnos[i].key).estado = turnos[i].val.estado ]_vars

\* What the two files hold when they have been rewritten from memory: the
\* snapshot is the two dicts, and the row export at csv_path has one row per
\* appointment, in storage order, with the name and phone of its client.
SnapshotIsMemory ==
    /\ dictFile.st = "written"
    /\ dictFile.content.clientes = clientes
    /\ dictFile.content.turnos = turnos

RowOf(t) ==
    LET known == \E i \in 1..Len(clientes) : clientes[i].key = t.cliente_dni
        c == (CHOOSE e \in {clientes[i] : i \in 1..Len(clientes)} :
                  e.key = t.cliente_dni).val
    IN [turno_id |-> t.id, cliente_dni |-> t.cliente_dni,
        cliente_nombre |-> IF known THEN c.nombre ELSE <<>>,
        cliente_telefono |-> IF known THEN c.telefono ELSE <<>>,
        datetime_str |-> t.datetime_str, servicio |-> t.servicio,
        estado |-> t.estado, notas |-> t.notas]

RowExportIsMemory ==
    /\ files[csv_path].st = "written"
    /\ Len(files[csv_path].content) = Len(turnos)
    /\ \A i \in 1..Len(turnos) : files[csv_path].content[i] = RowOf(Stored[i])

Succeeded(ops) == last.op \in ops /\ last.out = "ok"

\* C4 as stated: after every successful registrar_cliente, solicitar_turno,
\* modificar_turno, cancelar_turno or marcar_realizado, the snapshot and the
\* row export have both been rewritten from memory.
C4_BothFilesAfterEveryCall ==
    Succeeded({"registrar_cliente", "solicitar_turno", "modificar_turno",
               "cancelar_turno", "marcar_realizado"})
        => SnapshotIsMemory /\ RowExportIsMemory

\* C4, amended: after every successful solicitar_turno, modificar_turno,
\* cancelar_turno or marcar_realizado the snapshot and the row export have both
\* been rewritten from memory; a successful registrar_cliente rewrites the
\* snapshot and leaves every row export as it was.
C4_FilesAfterCall ==
    [][ /\ (Succeeded({"solicitar_turno", "modificar_turno",
                       "cancelar_turno", "marcar_realizado"}))'
            => (SnapshotIsMemory /\ RowExportIsMemory)'
        /\ (Succeeded({"registrar_cliente"}))'
            => (SnapshotIsMemory' /\ files' = files) ]_vars

\* A client has just been registered while a row export with a row exists.
C4_Witness ==
    /\ Succeeded({"registrar_cliente"})
    /\ files[csv_path].st = "written"
    /\ Len(files[csv_path].content) > 0

\* C5: exportar_csv_personalizado leaves csv_path as it was, whether it
\* returns or raises.
C5_ExportKeepsCsvPath ==
    [][ last'.op = "exportar_csv_personalizado" => csv_path' = csv_path ]_vars

\* C6: solicitar_turno for a registered client and a parseable timestamp is
\* refused for the slot exactly when an active appointment has that timestamp
\* (a cancelled or completed one does not count); when it is not refused,
\* exactly one appointment is added, under an id no appointment has, active,
\* and the others are unchanged; it succeeds exactly when it is not refused
\* and the flush does not fail.
C6_BookingIffSlotFree ==
    [][ ( /\ last'.op = "solicitar_turno"
          /\ Has(clientes, last'.args.cliente_dni)
          /\ Parses(last'.args.datetime_str) ) =>
        LET ts == Stamp(last'.args.datetime_str)
            taken == \E i \in 1..Len(turnos) :
                        IsActive(Stored[i]) /\ Stored[i].datetime_str = ts
            new == turnos'[Len(turnos')]
        IN /\ (last'.out = "SlotConflict") <=> taken
           /\ taken => turnos' = turnos
           /\ ~taken =>
                /\ Len(turnos') = Len(turnos) + 1
                /\ SubSeq(turnos', 1, Len(turnos)) = turnos
                /\ new.key \notin Keys(turnos)
                /\ new.val.id = new.key
                /\ new.val.estado = "activo"
                /\ new.val.datetime_str = ts
                /\ new.val.cliente_dni = last'.args.cliente_dni
           /\ (last'.out = "ok") <=> (~taken /\ failures' = failures) ]_vars

\* A booking has just succeeded in a slot where a cancelled or completed
\* appointment stands.
C6_Witness ==
    /\ Succeeded({"solicitar_turno"})
    /\ \E i \in 1..Len(turnos) :
          /\ ~IsActive(Stored[i])
          /\ Stored[i].datetime_str = Stamp(last.args.datetime_str)

\* key is raw without the spaces at its two ends.
IsTrimOf(key, raw) ==
    \E a, b \in 0..Len(raw) :
        /\ a + b <= Len(raw)
        /\ key = SubSeq(raw, a + 1, Len(raw) - b)
        /\ \A k \in 1..a : raw[k] = " "
        /\ \A k \in (Len(raw) - b + 1)..Len(raw) : raw[k] = " "
        /\ key # <<>> => (key[1] # " " /\ key[Len(key)] # " ")

\* C7: no two stored clients share an id and each is stored under its own dni;
\* a registrar_cliente whose trimmed id is registered fails with a ValueError
\* (the duplicate) and leaves the clients, names and phones included, as they were.
C7_ClientIdsUnique ==
    [][ /\ \A i, j \in 1..Len(clientes') :
              /\ clientes'[i].val.dni = clientes'[i].key
              /\ clientes'[i].key = clientes'[j].key => i = j
        /\ ( /\ last'.op = "registrar_cliente"
             /\ \E i \in 1..Len(clientes) : IsTrimOf(clientes[i].key, last'.args.dni) )
           => /\ last'.out = "DuplicateClient"
              /\ ExcType(last'.out) = "ValueError"
              /\ clientes' = clientes ]_vars

\* A registration of a registered id, written with a space after it and with
\* another name, has just been refused.
C7_Witness ==
    /\ last.op = "registrar_cliente"
    /\ last.out = "DuplicateClient"
    /\ \E i \in 1..Len(clientes) :
          /\ IsTrimOf(clientes[i].key, last.args.dni)
          /\ clientes[i].key # last.args.dni
          /\ clientes[i].val.nombre = <<"A">>
          /\ last.args.nombre # <<"A">>

\* C8: listar_turnos given a date filter that does not parse fails with the
\* invalid-date ValueError, whatever the manager holds.
C8_BadDateFilterFails ==
    ( /\ last.op = "listar_turnos"
      /\ last.args.fecha \notin {None, ""}
      /\ ~StrptimeDate(last.args.fecha).ok )
        => last.out = "InvalidDate"

\* What listar_turnos() returns in the current state.
Listed == ListarTurnos(turnos, NoneS, None, None)
Count(seq, x) == Cardinality({i \in 1..Len(seq) : seq[i] = x})
EveryStoredOnce(seq) ==
    /\ Len(seq) = Len(turnos)
    /\ \A i \in 1..Len(turnos) : Count(seq, Stored[i]) = Count(Stored, Stored[i])
Before(a, b) == DtLess(StrptimeDatetime(a.datetime_str), StrptimeDatetime(b.datetime_str))

\* C9 as stated: in every state, listar_turnos with no filter returns every
\* stored appointment once, each timestamp strictly less than the next
\* (stated of the runs in which no write to disk has failed).
C9_ListedStrictlyAscending ==
    failures = 0 =>
        /\ Listed.out = "ok"
        /\ EveryStoredOnce(Listed.ret)
        /\ \A i \in 1..(Len(Listed.ret) - 1) : Before(Listed.ret[i], Listed.ret[i + 1])

\* C9, amended: in every state, listar_turnos with no filter returns every
\* stored appointment once, no timestamp greater than the next (two
\* appointments that are not both active can have the same timestamp).
C9_ListedAscending ==
    /\ Listed.out = "ok"
    /\ EveryStoredOnce(Listed.ret)
    /\ \A i \in 1..(Len(Listed.ret) - 1) : ~Before(Listed.ret[i + 1], Listed.ret[i])

\* listar_turnos with no filter has just returned the stored appointments in
\* an order that is not the storage order.
C9_Witness ==
    /\ Succeeded({"listar_turnos"})
    /\ last.args = [cliente |-> NoneS, fecha |-> None, estado |-> None]
    /\ Len(last.ret) >= 2
    /\ last.ret = Listed.ret
    /\ last.ret # Stored

\* The clients of the state before a step are in the state after it, with
\* the same name and phone.
ClientsKept ==
    \A i \in 1..Len(clientes) :
        /\ Has(clientes', clientes[i].key)
        /\ Get(clientes', clientes[i].key) = clientes[i].val

\* C10 as stated: a registered client stays in the client set, with its name
\* and phone, through every call, load_from_csv included (stated of the runs in
\* which no write to disk has failed).
C10_ClientNeverDeleted == [][ failures' = 0 => ClientsKept ]_vars

\* C10, amended: a registered client stays in the client set, with its name and
\* phone, through every call but load_from_csv; load_from_csv, when the row
\* export exists, keeps of the clients only those with a non-empty id that a
\* row of the file names, and leaves the clients alone when it does not exist.
C10_ClientKeptButByLoad ==
    [][ /\ last'.op # "load_from_csv" => ClientsKept
        /\ last'.op = "load_from_csv" =>
              IF files[csv_path].st = "none" THEN clientes' = clientes
              ELSE \A i \in 1..Len(clientes) :
                      Has(clientes', clientes[i].key) <=>
                          /\ clientes[i].key # <<>>
                          /\ \E k \in 1..Len(files[csv_path].content) :
                                IsTrimOf(clientes[i].key,
                                         files[csv_path].content[k].cliente_dni) ]_vars

\* load_from_csv has just read a row export that exists and has a row, and
\* the client that row names is in the client set.
C10_Witness ==
    /\ last.op = "load_from_csv"
    /\ files[csv_path].st = "written"
    /\ Len(clientes) = 1
    /\ Len(turnos) >= 1

\* The set of the appointments of an ordered dict.
TurnoSet(tu) == {tu[i].val : i \in 1..Len(tu)}

\* C11: when the row export at csv_path has just been written from memory
\* (dump_to_csv) and load_from_csv reads it back, clearing the two dicts first,
\* the load succeeds, the appointments are the same set, field for field and
\* each under its id, and every client of the reloaded set has the name and
\* phone written in the columns of a row that names it (stated of the runs in
\* which no write to disk has failed).
C11_RowExportRoundTrip ==
    [][ ( /\ last'.op = "load_from_csv"
          /\ RowExportIsMemory
          /\ failures' = 0 ) =>
            /\ last'.out = "ok"
            /\ TurnoSet(turnos') = TurnoSet(turnos)
            /\ \A i \in 1..Len(turnos') : turnos'[i].key = turnos'[i].val.id
            /\ \A i \in 1..Len(clientes') :
                  \E k \in 1..Len(files[csv_path].content) :
                      LET row == files[csv_path].content[k] IN
                      /\ row.cliente_dni = clientes'[i].key
                      /\ row.cliente_nombre = clientes'[i].val.nombre
                      /\ row.cliente_telefono = clientes'[i].val.telefono ]_vars

\* What load_from_dict gives, from empty, for the snapshot dump_to_dict writes
\* of these clients and appointments.
SnapshotReloaded(cl, tu) ==
    LoadFromDictResult([st |-> "written", content |-> Snapshot(cl, tu)], <<>>, <<>>)

\* C12: in every state the program reaches, load_from_dict from empty of the
\* snapshot dump_to_dict writes succeeds and gives the clients and the
\* appointments of that state, field for field and in the same order, the
\* clients without an appointment included; and when a new manager is
\* constructed on a snapshot that was written from memory, its clients and
\* appointments are those of the manager before it.
C12_SnapshotRoundTrip ==
    [][ /\ SnapshotReloaded(clientes', turnos').out = "ok"
        /\ SnapshotReloaded(clientes', turnos').clientes = clientes'
        /\ SnapshotReloaded(clientes', turnos').turnos = turnos'
        /\ (last'.op = "__init__" /\ SnapshotIsMemory) =>
              /\ clientes' = clientes
              /\ turnos' = turnos ]_vars

\* A new manager has just loaded a snapshot with an appointment and a client
\* that has no appointment.
C12_Witness ==
    /\ last.op = "__init__"
    /\ last.out = "ok"
    /\ SnapshotIsMemory
    /\ Len(turnos) >= 1
    /\ \E i \in 1..Len(clientes) :
          \A k \in 1..Len(turnos) : Stored[k].cliente_dni # clientes[i].key

\* C13: when a write to disk fails during registrar_cliente, solicitar_turno,
\* modificar_turno, cancelar_turno or marcar_realizado (the call raises the
\* error of the write), the clients and the appointments in memory are those
\* of before the call.
C13_FailedFlushKeepsMemory ==
    [][ ( /\ last'.op \in {"registrar_cliente", "solicitar_turno", "modificar_turno",
                            "cancelar_turno", "marcar_realizado"}
          /\ last'.out = "IOError" ) =>
            /\ ExcType(last'.out) = "OSError"
            /\ clientes' = clientes
            /\ turnos' = turnos ]_vars

\* The two files the constructor found, after a construction.
Found == last.args
\* A row that has all its columns.
WellFormed(row) ==
    /\ row.cliente_dni # NoneS
    /\ row.cliente_nombre # NoneS
    /\ row.cliente_telefono # NoneS
    /\ row.datetime_str # None
    /\ row.servicio # NoneS
    /\ row.estado # None
    /\ row.notas # NoneS
\* The appointment of every well-formed row is stored under the row's id, and
\* the client the row names, when it names one, is in the client set.
WellFormedRowsLoaded(rows) ==
    \A k \in 1..Len(rows) :
        WellFormed(rows[k]) =>
            /\ Has(turnos, rows[k].turno_id)
            /\ Get(turnos, rows[k].turno_id).datetime_str = rows[k].datetime_str
            /\ \/ IsTrimOf(<<>>, rows[k].cliente_dni)
               \/ \E i \in 1..Len(clientes) :
                     IsTrimOf(clientes[i].key, rows[k].cliente_dni)

\* C14: after a construction, (a) when the snapshot existed and loaded, the
\* clients and appointments are those of the snapshot, whatever the row
\* export held, and, no write having failed, the row export at CSV_FILE is the
\* row projection of them; (b) when only the row export existed, the rows are
\* loaded and, no write having failed, the snapshot is written from memory;
\* (c) when neither existed, both dicts are empty.
C14_StartupProtocol ==
    last.op = "__init__" =>
        /\ Found.dict.st = "written" =>
              /\ clientes = Found.dict.content.clientes
              /\ turnos = Found.dict.content.turnos
              /\ last.out # "IOError" => (csv_path = CSV_FILE /\ RowExportIsMemory)
        /\ (Found.dict.st = "none" /\ Found.csv.st # "none") =>
              /\ WellFormedRowsLoaded(Found.csv.content)
              /\ last.out # "IOError" => SnapshotIsMemory
        /\ (Found.dict.st = "none" /\ Found.csv.st = "none") =>
              /\ clientes = <<>>
              /\ turnos = <<>>

\* Every well-formed row of the file is loaded, no malformed one is, and the
\* load does not raise.
MalformedRowsSkipped(rows, out) ==
    /\ out \in {"ok", "IOError"}
    /\ WellFormedRowsLoaded(rows)
    /\ \A k \in 1..Len(rows) : ~WellFormed(rows[k]) => ~Has(turnos, rows[k].turno_id)

\* C17: after load_from_csv has read a row export with a row that lacks
\* columns, called on the manager or by the constructor, every well-formed row
\* before and after that row is loaded, the row itself is not, and the load
\* has not been aborted.
C17_MalformedRowSkipped ==
    /\ (last.op = "load_from_csv" /\ files[csv_path].st # "none")
          => MalformedRowsSkipped(files[csv_path].content, last.out)
    /\ (last.op = "__init__" /\ Found.dict.st = "none" /\ Found.csv.st # "none")
          => MalformedRowsSkipped(Found.csv.content, last.out)

\* C15: modificar_turno, cancelar_turno and marcar_realizado called with an id
\* that no stored appointment has fail with NotFound, a KeyError, and leave the
\* clients, the appointments, the snapshot and every row export as they were.
C15_UnknownIdChangesNothing ==
    [][ ( /\ last'.op \in {"modificar_turno", "cancelar_turno", "marcar_realizado"}
          /\ \A i \in 1..Len(turnos) : turnos[i].key # last'.args.turno_id ) =>
            /\ last'.out = "NotFound"
            /\ ExcType(last'.out) = "KeyError"
            /\ clientes' = clientes
            /\ turnos' = turnos
            /\ dictFile' = dictFile
            /\ files' = files ]_vars

\* marcar_realizado has just been refused for an id that no appointment has,
\* while an appointment with another id is stored and both files are written.
C15_Witness ==
    /\ last.op = "marcar_realizado"
    /\ last.out = "NotFound"
    /\ Len(turnos) >= 1
    /\ dictFile.st = "written"
    /\ files[csv_path].st = "written"

\* C16: after every call on a manager that started empty, every stored
\* appointment has the id of a client of the client set as its cliente_dni;
\* and a solicitar_turno for an id that no client has fails with UnknownClient,
\* a ValueError, whatever its timestamp is, and adds no appointment (stated of
\* the runs in which no write to disk has failed).
C16_ReferentialIntegrity ==
    [][ failures' = 0 =>
            /\ \A k \in 1..Len(turnos') :
                  \E i \in 1..Len(clientes') :
                      clientes'[i].key = turnos'[k].val.cliente_dni
            /\ ( /\ last'.op = "solicitar_turno"
                 /\ \A i \in 1..Len(clientes) :
                       clientes[i].key # last'.args.cliente_dni ) =>
                    /\ last'.out = "UnknownClient"
                    /\ ExcType(last'.out) = "ValueError"
                    /\ turnos' = turnos ]_vars

\* C18: a successful modificar_turno leaves the keys, the order and every
\* other appointment as they were, every key equal to the id stored under it,
\* and the clients unchanged; of the target it keeps the id, the client and
\* the status, the timestamp unless one was passed (None and "" pass none),
\* the service unless one was passed and the notes unless some were passed;
\* a timestamp that was passed is stored as formatted.  A modificar_turno that
\* passes an active appointment its own timestamp succeeds when no write fails.
C18_ModificarChangesOnlySupplied ==
    [][ last'.op = "modificar_turno" =>
          LET a == last'.args IN
          /\ last'.out = "ok" =>
                /\ clientes' = clientes
                /\ Len(turnos') = Len(turnos)
                /\ \E i \in 1..Len(turnos) : turnos[i].key = a.turno_id
                /\ \A i \in 1..Len(turnos) :
                      LET old == turnos[i].val
                          new == turnos'[i].val
                      IN /\ turnos'[i].key = turnos[i].key
                         /\ new.id = turnos'[i].key
                         /\ turnos[i].key # a.turno_id => new = old
                         /\ new.id = old.id
                         /\ new.cliente_dni = old.cliente_dni
                         /\ new.estado = old.estado
                         /\ new.datetime_str =
                               IF turnos[i].key = a.turno_id
                                  /\ a.nuevo_datetime_str \notin {None, ""}
                               THEN Stamp(a.nuevo_datetime_str) ELSE old.datetime_str
                         /\ (a.nuevo_servicio = NoneS => new.servicio = old.servicio)
                         /\ (a.nuevas_notas = NoneS => new.notas = old.notas)
          /\ ( /\ failures' = failures
               /\ Parses(a.nuevo_datetime_str)
               /\ \E i \in 1..Len(turnos) :
                     /\ turnos[i].key = a.turno_id
                     /\ IsActive(turnos[i].val)
                     /\ turnos[i].val.datetime_str = Stamp(a.nuevo_datetime_str) )
              => last'.out = "ok" ]_vars

\* A modificar_turno that passed only a timestamp has just succeeded on an
\* active appointment that was booked at that timestamp, written otherwise,
\* and has not been moved since, while another appointment is stored.
C18_Witness ==
    /\ Succeeded({"modificar_turno"})
    /\ last.args.nuevo_datetime_str = "2024-3-1 10:00"
    /\ last.args.nuevo_servicio = NoneS
    /\ last.args.nuevas_notas = NoneS
    /\ Len(turnos) >= 2
    /\ \E i \in 1..Len(turnos) :
          /\ turnos[i].key = last.args.turno_id
          /\ IsActive(Stored[i])
          /\ Stored[i].datetime_str = "2024-03-01 10:00"
          /\ Stored[i].servicio = <<"C">>

\* The appointment with that id has that status and the two files are as a
\* successful call left them: written from memory.
SettledAs(tu, id, estado) ==
    /\ \E i \in 1..Len(tu) : tu[i].key = id /\ tu[i].val.estado = estado
    /\ SnapshotIsMemory
    /\ RowExportIsMemory

\* cancelar_turno(id), called in the current state with no write failing,
\* returns and leaves the appointments and the files as they are; the same of
\* marcar_realizado(id).
CancelarAgainChangesNothing(id) ==
    LET r == Cancelar(turnos, id)
        w == FlushBoth(clientes, r.turnos, NoFault)
    IN r.out = "ok" /\ r.turnos = turnos /\ w.dict = dictFile /\ w.files = files
MarcarAgainChangesNothing(id) ==
    LET r == MarcarRealizado(turnos, id)
        w == FlushBoth(clientes, r.turnos, NoFault)
    IN r.out = "ok" /\ r.turnos = turnos /\ w.dict = dictFile /\ w.files = files

\* C19: in the state a successful cancelar_turno(id) leaves, a second
\* cancelar_turno(id) succeeds and changes neither the clients, nor the
\* appointments, nor the snapshot, nor any row export; and so does every
\* cancelar_turno made, with no write failing, on a cancelled appointment
\* while the two files are as a successful call left them.  The same of
\* marcar_realizado and a completed appointment.
C19_SecondCallChangesNothing ==
    [][ /\ (Succeeded({"cancelar_turno"}))' => (CancelarAgainChangesNothing(last.args.turno_id))'
        /\ (Succeeded({"marcar_realizado"}))' => (MarcarAgainChangesNothing(last.args.turno_id))'
        /\ ( /\ last'.op = "cancelar_turno"
             /\ SettledAs(turnos, last'.args.turno_id, "cancelado")
             /\ failures' = failures ) =>
                /\ last'.out = "ok"
                /\ UNCHANGED <<clientes, turnos, dictFile, files>>
        /\ ( /\ last'.op = "marcar_realizado"
             /\ SettledAs(turnos, last'.args.turno_id, "realizado")
             /\ failures' = failures ) =>
                /\ last'.out = "ok"
                /\ UNCHANGED <<clientes, turnos, dictFile, files>> ]_vars

\* cancelar_turno has just succeeded on one of two stored appointments, the
\* state in which the second call is made: the appointment is cancelled and
\* the two files are written from memory.
C19_Witness ==
    /\ Succeeded({"cancelar_turno"})
    /\ Len(turnos) >= 2
    /\ SettledAs(turnos, last.args.turno_id, "cancelado")

\* C20: in the runs made of registrar_cliente, solicitar_turno,
\* modificar_turno, cancelar_turno, marcar_realizado and restarts, as long as
\* no write to disk has failed, the manager a restart constructs holds the
\* clients and the appointments the manager before it held, at every restart
\* of the run.
C20_RestartKeepsMemory ==
    [][ (last'.op = "__init__" /\ failures' = 0) =>
            /\ last'.out = "ok"
            /\ clientes' = clientes
            /\ turnos' = turnos ]_vars

\* A manager has just been constructed, as the last step of a run with no
\* failed write, and holds three clients and appointments or more.
C20_Witness ==
    /\ last.op = "__init__"
    /\ last.out = "ok"
    /\ failures = 0
    /\ steps = MaxSteps
    /\ Len(clientes) + Len(turnos) >= 3

==========================================================================
